---- MODULE Spec2Model ----
(***************************************************************************)
(* Model of internal/server/server.go: the liteserver proxy's session      *)
(* front-end (ProxyBalancer.handleRequest) and its query dispatcher        *)
(* (the handle* methods).                                                  *)
(*                                                                         *)
(* Every message handed to handleRequest occupies a slot.  The synchronous *)
(* part of handleRequest (key lookup, the two limiters, the spawn) and the *)
(* detached per-query goroutine are stepped through by one action per      *)
(* blocking call: a limiter Add, a Cache method, the emulator, the backend *)
(* query.  The Cache, the emulator and the backend are interfaces of the   *)
(* program, so what they return is chosen by the environment.              *)
(***************************************************************************)
EXTENDS Integers, Sequences, FiniteSets, TLC

(***************************************************************************)
(* Bounds of the model.                                                    *)
(***************************************************************************)
\* largest configured CapacityPerKey / CapacityPerIP
MaxCapacity == 1
\* highest seqno the chain's tip reaches
MaxTip == 2

\* The slots of the messages being handled.  Spec handles one message at a
\* time, of every shape; SpecSpike handles two at once, of one shape.
AllSlots == {1, 2}
Slots == {1}
SpikeSlots == AllSlots

(***************************************************************************)
(* Hit classes (server.go:24-28).                                          *)
(***************************************************************************)
HitTypeEmulated == "emulated"
HitTypeBackend == "backend"
HitTypeCache == "cache"
HitTypeFailedValidate == "failed_validate"
HitTypeFailedInternal == "failed_internal"

(***************************************************************************)
(* Values.  Every reply and every query payload is a record with a type    *)
(* field, as the TL values are tagged by their Go type.                    *)
(***************************************************************************)
Nil == [type |-> "nil"]

LSError(code, text) == [type |-> "LSError", code |-> code, text |-> text]

\* ton.ErrCodeContractNotInitialized
ErrCodeContractNotInitialized == -256

\* the LSErrors a Cache method or the backend may fail with
BackendLSErrors == {LSError(404, "block not found")}
\* an error value that is not an LSError
OtherError == [type |-> "error", text |-> "context deadline exceeded"]
\* no error
NoError == [type |-> "noerror", text |-> ""]

Errors == BackendLSErrors \cup {OtherError}

IsLSError(err) == err.type = "LSError"

(***************************************************************************)
(* Query payloads (q.Data).  A payload that is not a list has an empty     *)
(* list field; a compound query has type "List" and carries its elements.  *)
(***************************************************************************)
\* the master block ids (v.ID) the clients name
BlockIDs == {1, 2}

QueryAt(type, mode, id) ==
    [type |-> type, mode |-> mode, list |-> << >>, id |-> id]

Query(type, mode) == QueryAt(type, mode, 1)

EmulatedTypes == {"GetVersion", "GetTime"}
CachedTypes == {"GetMasterchainInfoExt", "GetMasterchainInf", "GetLibraries",
                "GetOneTransaction", "GetBlockData", "GetAccountState",
                "RunSmcMethod"}
\* the types the dispatcher names without handling, and one it does not name
ProxiedTypes == {"GetConfigAll", "SendMessage"}

\* the mode values tried for RunSmcMethod: bits 1 (state proof) and 3 (c7)
SmcModes == {0, 2, 8, 10}

SimpleQueries ==
    {Query(t, 0) : t \in (EmulatedTypes \cup CachedTypes \cup ProxiedTypes)}
    \cup {Query("GetMasterchainInfoExt", 1)}
    \cup {Query("RunSmcMethod", md) : md \in SmcModes \ {0}}
    \cup {QueryAt("RunSmcMethod", 0, 2)}

WaitMasterchainSeqno == Query("WaitMasterchainSeqno", 0)

\* the second element of the lists tried
InnerQueries == {Query("GetTime", 0), Query("GetBlockData", 0),
                 Query("GetConfigAll", 0), Query("RunSmcMethod", 8)}

ListOf(elems) == [type |-> "List", mode |-> 0, list |-> elems, id |-> 0]

CompoundQueries ==
    {ListOf(<< >>), ListOf(<<WaitMasterchainSeqno>>),
     ListOf(<<WaitMasterchainSeqno, Query("GetTime", 0), Query("GetTime", 0)>>)}
    \cup {ListOf(<<WaitMasterchainSeqno, inner>>) : inner \in InnerQueries}
    \cup {ListOf(<<Query("GetTime", 0), Query("GetTime", 0)>>)}

Queries == SimpleQueries \cup CompoundQueries

(***************************************************************************)
(* What the Cache holds: the master block of an id with that block's       *)
(* config, and the state of the account as of a master block.              *)
(***************************************************************************)
MasterBlock(id) ==
    [type |-> "MasterBlock", id |-> id, config |-> <<"config", id>>]

AccountStateOf(block, cell) ==
    [type |-> "AccountState", state |-> cell, shard |-> <<"shard", block.id>>,
     shardProof |-> <<"shardProof", block.id>>, proof |-> <<"proof", block.id>>]

(***************************************************************************)
(* Messages: what handleRequest's type switches tell apart.                *)
(***************************************************************************)
MessageKinds == {"LiteServerQuery", "OtherQuery", "TCPPing", "Other"}

\* server keys: one with a KeyConfig, one without
KnownKeys == {"k1"}
ServerKeys == KnownKeys \cup {"kx"}
IPs == {"ip1", "ip2"}

(***************************************************************************)
(* State.                                                                  *)
(***************************************************************************)
VARIABLES
    configs,        \* ProxyBalancer.configs: server key -> KeyConfig
    onlyProxy,      \* ProxyBalancer.onlyProxy
    limiterPerKey,  \* level of KeyConfig.limiterPerKey's bucket, per key
    limiterPerIP,   \* level of each bucket of KeyConfig.limiterPerIP, per key and IP
    tip,            \* seqno of the last master block the Cache knows
    slot,           \* the messages being handled: handleRequest's and the task's locals
                    \* (sent: the messages handed to sc.Send, whether or not
                    \* the transport delivered them; ret: what handleRequest
                    \* returned; inWindow: the query's per-IP token was taken
                    \* since that bucket last leaked and the task is not yet
                    \* spawned; count, seen: what the per-key Add in progress
                    \* read of its bucket)
    admitted,       \* per limited key: tasks spawned since its bucket last leaked
    admittedIP      \* per limited key and IP: tasks spawned since that IP's bucket last leaked

vars == <<configs, onlyProxy, tip, limiterPerKey, limiterPerIP, slot, admitted,
          admittedIP>>

limiters == <<limiterPerKey, limiterPerIP>>
counters == <<admitted, admittedIP>>

\* KeyConfig: a capacity of 0 stands for a nil limiter (NewProxyBalancer
\* builds a limiter only for a capacity > 0)
KeyConfigs == [name : {"tenant"}, CapacityPerKey : 0..MaxCapacity,
               CapacityPerIP : 0..MaxCapacity]

\* a slot no message occupies
IdleSlot ==
    [pc |-> "idle", id |-> 0, kind |-> "Other", key |-> "kx", ip |-> "ip1",
     msg |-> Nil, data |-> Nil, resp |-> Nil, hitType |-> "",
     calls |-> << >>, sent |-> << >>, ret |-> "none", spawned |-> FALSE,
     inWindow |-> FALSE, count |-> 0, seen |-> 0,
     cachedMaster |-> FALSE, cachedState |-> FALSE, cachedLibs |-> FALSE,
     state |-> "none", err |-> NoError, backendReq |-> Nil, backendVal |-> Nil,
     block |-> Nil, accState |-> Nil, emuConfig |-> Nil]

Init ==
    /\ configs \in [KnownKeys -> KeyConfigs]
    /\ onlyProxy \in BOOLEAN
    /\ tip = 1
    /\ limiterPerKey = [k \in KnownKeys |-> 0]
    /\ limiterPerIP = [k \in KnownKeys |-> [i \in IPs |-> 0]]
    /\ slot = [m \in AllSlots |-> IdleSlot]
    /\ admitted = [k \in KnownKeys |-> 0]
    /\ admittedIP = [k \in KnownKeys |-> [i \in IPs |-> 0]]

(***************************************************************************)
(* Helpers of the front-end.                                               *)
(***************************************************************************)
\* mutant of lim: a key without KeyConfig is served as an unlimited tenant
limDefault(key) ==
    IF key \in DOMAIN configs THEN configs[key]
    ELSE [name |-> "unknown", CapacityPerKey |-> 0, CapacityPerIP |-> 0]

\* s.configs[string(sc.ServerKey())]: Nil for a key without KeyConfig
lim(key) == IF key \in DOMAIN configs THEN configs[key] ELSE Nil

\* cost := int64(1)
cost == 1

\* leakybucket Add: the amount actually added to a bucket at `level`
Add(level, capacity, amount) ==
    IF level >= capacity THEN 0
    ELSE IF level + amount > capacity THEN capacity - level
    ELSE amount

\* mutant of refuses: the comparison is the wrong way round
refusesMore(capacity, added) == capacity > 0 /\ added > cost

\* mutant of refuses: a limiter never refuses
refusesNever(capacity, added) == FALSE

\* lines 129 and 135: limiter != nil && limiter.Add(cost) != cost
refuses(capacity, added) == capacity > 0 /\ added # cost

\* sc.Send(adnl.MessageAnswer{ID: m.ID, Data: data})
MessageAnswer(id, data) == [type |-> "MessageAnswer", id |-> id, data |-> data]

\* mutant of TCPPong: the pong carries no id of the ping
TCPPongFresh(id) == [type |-> "TCPPong", id |-> 0]

\* line 257: liteclient.TCPPong{RandomID: m.RandomID}
TCPPong(id) == [type |-> "TCPPong", id |-> id]

\* what sc.Send returns: nil, or an error when the transport fails.
\* handleRequest returns it where it sends by itself (lines 121, 130, 136,
\* 257); the goroutine discards it (lines 149, 158, 168, 251).
SendResults == {"nil", "sendError"}

\* the slot's message is answered with `data` and its handling ends
Answer(r, data) ==
    [r EXCEPT !.pc = "done", !.sent = Append(@, MessageAnswer(r.id, data))]

(***************************************************************************)
(* A message reaches handleRequest.  It takes the lowest slot of `slots`   *)
(* that handles no message; the client chose its id and its payload.       *)
(***************************************************************************)
MsgIDs == {1, 2}

ArriveOf(m, slots, kinds, keys, ips, queries) ==
    /\ slot[m].pc = "idle"
    /\ \A n \in AllSlots : slot[n].pc # "panic"
    /\ \A n \in slots : n < m => slot[n].pc # "idle"
    /\ \E id \in MsgIDs, kind \in kinds, key \in keys, ip \in ips, q \in queries :
          /\ kind # "LiteServerQuery" => q = CHOOSE x \in queries : TRUE
          /\ slot' = [slot EXCEPT ![m] =
                 [IdleSlot EXCEPT !.pc = "handleRequest", !.id = id,
                                  !.kind = kind, !.key = key, !.ip = ip,
                                  !.msg = q, !.data = q]]
    /\ UNCHANGED <<configs, onlyProxy, tip, limiters, counters>>

Arrive(m) == ArriveOf(m, Slots, MessageKinds, ServerKeys, {"ip1"}, Queries)

\* the handling of the slot's message has ended: the slot is free again
Release(m) ==
    /\ slot[m].pc = "done"
    /\ slot' = [slot EXCEPT ![m] = IdleSlot]
    /\ UNCHANGED <<configs, onlyProxy, tip, limiters, counters>>

(***************************************************************************)
(* handleRequest, lines 105-125 and 256-260: the type switches and the     *)
(* server-key check.                                                       *)
(***************************************************************************)
HandleRequest(m) ==
    /\ slot[m].pc = "handleRequest"
    /\ \E sendRes \in SendResults :
          LET r == slot[m] IN
          slot' = [slot EXCEPT ![m] =
              IF r.kind = "TCPPing"
              THEN [r EXCEPT !.pc = "done", !.ret = sendRes,
                             !.sent = Append(@, TCPPong(r.id))]
              ELSE IF r.kind # "LiteServerQuery"
              THEN [r EXCEPT !.pc = "done", !.ret = "error"]
              ELSE IF lim(r.key) = Nil
              THEN [Answer(r, LSError(401, "unexpected server key"))
                       EXCEPT !.ret = sendRes]
              ELSE [r EXCEPT !.pc = "limiterPerIP"]]
    /\ UNCHANGED <<configs, onlyProxy, tip, limiters, counters>>

(***************************************************************************)
(* handleRequest, lines 129-134: the per-IP limiter.                       *)
(***************************************************************************)
LimiterPerIP(m) ==
    /\ slot[m].pc = "limiterPerIP"
    /\ \E sendRes \in SendResults :
       LET r == slot[m]
           cap == lim(r.key).CapacityPerIP
           added == IF cap > 0 THEN Add(limiterPerIP[r.key][r.ip], cap, cost) ELSE 0
       IN /\ limiterPerIP' = IF cap > 0
                             THEN [limiterPerIP EXCEPT ![r.key][r.ip] = @ + added]
                             ELSE limiterPerIP
          /\ slot' = [slot EXCEPT ![m] =
                IF refuses(cap, added)
                THEN [Answer(r, LSError(429, "too many requests"))
                         EXCEPT !.ret = sendRes]
                ELSE [r EXCEPT !.pc = "limiterPerKey", !.inWindow = cap > 0]]
    /\ UNCHANGED <<configs, onlyProxy, tip, limiterPerKey, counters>>

(***************************************************************************)
(* handleRequest, lines 135-142 and 254: the per-key limiter, then the     *)
(* per-query goroutine is started and handleRequest returns nil.           *)
(*                                                                         *)
(* handleRequest holds no lock around lim.limiterPerKey.Add, and the       *)
(* LeakyBucket it calls has none of its own (only the per-IP Collector     *)
(* locks its Add), while the connections of one server key call            *)
(* handleRequest concurrently on the one bucket.  Add is therefore two     *)
(* steps, the read of the bucket and the write of the debit, and whatever  *)
(* the race between two Adds can produce is a step of the model: a debit   *)
(* decided on a count another Add has outdated, and a debit written over   *)
(* another Add's.                                                          *)
(***************************************************************************)
\* the tenant has no per-key limiter: the task is spawned.  Otherwise Add
\* begins: it reads the bucket.
LimiterPerKey(m) ==
    /\ slot[m].pc = "limiterPerKey"
    /\ LET r == slot[m]
           cap == lim(r.key).CapacityPerKey
       IN /\ slot' = [slot EXCEPT ![m] =
                IF cap > 0
                THEN [r EXCEPT !.pc = "limiterPerKeyAdd",
                               !.count = limiterPerKey[r.key],
                               !.seen = limiterPerKey[r.key]]
                ELSE [r EXCEPT !.pc = "task", !.spawned = TRUE, !.ret = "nil",
                               !.inWindow = FALSE]]
          /\ admittedIP' = IF cap > 0 \/ ~r.inWindow THEN admittedIP
                           ELSE [admittedIP EXCEPT ![r.key][r.ip] = @ + 1]
    /\ UNCHANGED <<configs, onlyProxy, tip, limiters, admitted>>

\* Add decides on the count it read and writes the debit, onto the bucket
\* as it is now or onto the bucket as Add read it; then line 135 compares
\* what Add returned with the cost
LimiterPerKeyAdd(m) ==
    /\ slot[m].pc = "limiterPerKeyAdd"
    /\ \E sendRes \in SendResults, base \in {limiterPerKey[slot[m].key], slot[m].seen} :
       LET r == [slot[m] EXCEPT !.count = 0, !.seen = 0, !.inWindow = FALSE]
           cap == lim(r.key).CapacityPerKey
           added == Add(slot[m].count, cap, cost)
           refused == refuses(cap, added)
       IN /\ added = 0 => base = limiterPerKey[r.key]
          /\ limiterPerKey' = [limiterPerKey EXCEPT ![r.key] = base + added]
          /\ slot' = [slot EXCEPT ![m] =
                IF refused
                THEN [Answer(r, LSError(429, "too many requests"))
                         EXCEPT !.ret = sendRes]
                ELSE [r EXCEPT !.pc = "task", !.spawned = TRUE, !.ret = "nil"]]
          /\ admitted' = IF refused THEN admitted
                         ELSE [admitted EXCEPT ![r.key] = @ + 1]
          /\ admittedIP' = IF refused \/ ~slot[m].inWindow THEN admittedIP
                           ELSE [admittedIP EXCEPT ![r.key][r.ip] = @ + 1]
    /\ UNCHANGED <<configs, onlyProxy, tip, limiterPerIP>>

(***************************************************************************)
(* Time passes: a token leaks out of a bucket.                             *)
(***************************************************************************)
\* (the bucket an Add in progress has read leaks as well)
LeakPerKey(k) ==
    /\ limiterPerKey[k] > 0
    /\ limiterPerKey' = [limiterPerKey EXCEPT ![k] = @ - 1]
    /\ admitted' = [admitted EXCEPT ![k] = 0]
    /\ slot' = [m \in AllSlots |->
                  IF slot[m].key = k /\ slot[m].seen > 0
                  THEN [slot[m] EXCEPT !.seen = @ - 1] ELSE slot[m]]
    /\ UNCHANGED <<configs, onlyProxy, tip, limiterPerIP, admittedIP>>

LeakPerIP(k, ip) ==
    /\ limiterPerIP[k][ip] > 0
    /\ limiterPerIP' = [limiterPerIP EXCEPT ![k][ip] = @ - 1]
    /\ admittedIP' = [admittedIP EXCEPT ![k][ip] = 0]
    /\ slot' = [m \in AllSlots |->
                  IF slot[m].key = k /\ slot[m].ip = ip
                  THEN [slot[m] EXCEPT !.inWindow = FALSE] ELSE slot[m]]
    /\ UNCHANGED <<configs, onlyProxy, tip, limiterPerKey, admitted>>

(***************************************************************************)
(* The chain grows: the Cache learns of a new last master block.           *)
(***************************************************************************)
TipAdvance ==
    /\ tip < MaxTip
    /\ tip' = tip + 1
    /\ UNCHANGED <<configs, onlyProxy, limiters, slot, counters>>

(***************************************************************************)
(* The per-query goroutine (handleRequest, lines 142-252).                 *)
(***************************************************************************)
\* a call made on behalf of the slot's query returned err: it is logged
Called(r, op, err) == [r EXCEPT !.calls = Append(@, op), !.err = err]

\* mutant of Finish: an error reply of a handler falls through to the
\* direct proxy as a nil reply does
FinishRetry(r, resp, hitType) ==
    IF resp = Nil \/ resp.type = "LSError"
    THEN [r EXCEPT !.pc = "proxy", !.resp = Nil, !.hitType = hitType]
    ELSE [r EXCEPT !.pc = "done", !.resp = resp, !.hitType = hitType,
                   !.sent = Append(@, [type |-> "MessageAnswer", id |-> r.id,
                                       data |-> resp])]

\* lines 229 and 251 after a handler returned (resp, hitType): a nil resp
\* falls through to the direct proxy, anything else is sent; the deferred
\* function then observes hitType
Finish(r, resp, hitType) ==
    IF resp = Nil
    THEN [r EXCEPT !.pc = "proxy", !.resp = resp, !.hitType = hitType]
    ELSE Answer([r EXCEPT !.resp = resp, !.hitType = hitType], resp)

\* the propagation rule the handlers share: an LSError is returned as it
\* is with lsHit, any other error becomes LSError 500 with `text`
Propagate(err, text, lsHit) ==
    IF IsLSError(err) THEN <<err, lsHit>>
    ELSE <<LSError(500, text), HitTypeFailedInternal>>

\* what a Cache method returning (value, was_cached, error) may return
CacheResults == [err : {NoError}, cached : BOOLEAN]
                \cup [err : Errors, cached : {FALSE}]

\* mutant of UseDispatcher: the onlyProxy flag is not consulted
UseDispatcherAlways == TRUE

\* line 145: if !s.onlyProxy
UseDispatcher == ~onlyProxy

\* mutant of BadLen: only a list that is too short is refused
BadLenShort(v) == Len(v) < 2

\* line 148: len(v) != 2
BadLen(v) == Len(v) # 2

\* lines 143-164: the onlyProxy test and the checks of a compound query
TaskStart(m) ==
    /\ slot[m].pc = "task"
    /\ LET r == slot[m]
           v == r.data.list
       IN slot' = [slot EXCEPT ![m] =
           IF ~UseDispatcher THEN [r EXCEPT !.pc = "proxy"]
           ELSE IF r.data.type # "List" THEN [r EXCEPT !.pc = "dispatch"]
           ELSE IF BadLen(v)
           THEN Answer(r, LSError(400, "unexpected len of queries"))
           ELSE IF v[1].type # "WaitMasterchainSeqno"
           THEN Answer(r, LSError(400, "unexpected first query type"))
           ELSE [r EXCEPT !.pc = "WaitMasterBlock"]]
    /\ UNCHANGED <<configs, onlyProxy, tip, limiters, counters>>

\* mutant of SendsWaitError: every error of the wait is sent
SendsWaitErrorAlways(err) == TRUE

\* line 167: the error of the wait is sent if it is an LSError
SendsWaitError(err) == IsLSError(err)

\* lines 165-175: s.cache.WaitMasterBlock, then q.Data = v[1]
WaitMasterBlock(m) ==
    /\ slot[m].pc = "WaitMasterBlock"
    /\ \E err \in {NoError} \cup Errors :
          LET r == Called(slot[m], "WaitMasterBlock", err) IN
          slot' = [slot EXCEPT ![m] =
              IF err # NoError
              THEN IF SendsWaitError(err) THEN Answer(r, err)
                   ELSE [r EXCEPT !.pc = "done"]
              ELSE [r EXCEPT !.pc = "dispatch", !.data = r.data.list[2]]]
    /\ UNCHANGED <<configs, onlyProxy, tip, limiters, counters>>

\* lines 177-227: hitType := HitTypeBackend and the switch on q.Data's type
Dispatch(m) ==
    /\ slot[m].pc = "dispatch"
    /\ LET r == [slot[m] EXCEPT !.hitType = HitTypeBackend]
           t == r.data.type
       IN slot' = [slot EXCEPT ![m] =
           CASE t = "GetVersion" ->
                  Finish(r, [type |-> "Version", mode |-> 0, version |-> 257,
                             capabilities |-> 7], HitTypeEmulated)
             [] t = "GetTime" ->
                  Finish(r, [type |-> "CurrentTime"], HitTypeEmulated)
             [] t = "GetMasterchainInfoExt" ->
                  \* handleGetMasterchainInfoExt, lines 387-392
                  IF r.data.mode # 0
                  THEN Finish(r, LSError(400, "non zero mode is not supported"),
                              HitTypeFailedValidate)
                  ELSE [r EXCEPT !.pc = "GetLastMasterBlock"]
             [] t = "GetMasterchainInf" -> [r EXCEPT !.pc = "GetLastMasterBlock"]
             [] t = "GetLibraries" -> [r EXCEPT !.pc = "GetLibraries"]
             [] t = "GetOneTransaction" -> [r EXCEPT !.pc = "GetTransaction"]
             [] t = "GetBlockData" -> [r EXCEPT !.pc = "GetBlock"]
             [] t = "GetAccountState" -> [r EXCEPT !.pc = "GetMasterBlock"]
             [] t = "RunSmcMethod" -> [r EXCEPT !.pc = "GetMasterBlock"]
             [] OTHER -> Finish(r, Nil, HitTypeBackend)]
    /\ UNCHANGED <<configs, onlyProxy, tip, limiters, counters>>

\* the value the backend answers a query with
BackendValues == {[type |-> "BackendValue", v |-> 1], [type |-> "BackendValue", v |-> 2]}

\* mutant of ProxyRequest: the message's payload as received is forwarded
ProxyRequestOrig(r) == r.msg

\* line 235: the request forwarded is q.Data
ProxyRequest(r) == r.data

\* the direct proxy's mapping of the backend's error (lines 237-248)
ProxyError(err) ==
    IF IsLSError(err) THEN err ELSE LSError(502, "backend node timeout")

\* lines 229-251: the direct proxy, QueryLiteserver(ctx, q.Data, &resp)
Proxy(m) ==
    /\ slot[m].pc = "proxy"
    /\ \E err \in {NoError} \cup Errors, val \in BackendValues :
          LET r == [Called(slot[m], "QueryLiteserver", err)
                       EXCEPT !.backendReq = ProxyRequest(slot[m]),
                              !.backendVal = IF err # NoError THEN Nil ELSE val]
              resp == IF err # NoError THEN ProxyError(err) ELSE val
          IN /\ err # NoError => val = CHOOSE x \in BackendValues : TRUE
             /\ slot' = [slot EXCEPT ![m] = Answer([r EXCEPT !.resp = resp], resp)]
    /\ UNCHANGED <<configs, onlyProxy, tip, limiters, counters>>

(***************************************************************************)
(* handleGetMasterchainInfo and handleGetMasterchainInfoExt.               *)
(***************************************************************************)
\* lines 394-405 and 435-446: s.cache.GetLastMasterBlock
GetLastMasterBlock(m) ==
    /\ slot[m].pc = "GetLastMasterBlock"
    /\ \E res \in CacheResults :
          LET r == Called(slot[m], "GetLastMasterBlock", res.err)
              e == Propagate(res.err, "failed to resolve master block",
                             HitTypeFailedInternal)
          IN slot' = [slot EXCEPT ![m] =
                 IF res.err # NoError THEN Finish(r, e[1], e[2])
                 ELSE [r EXCEPT !.pc = "GetZeroState", !.block = MasterBlock(tip),
                                !.cachedMaster = res.cached]]
    /\ UNCHANGED <<configs, onlyProxy, tip, limiters, counters>>

\* lines 407-431 and 448-466: s.cache.GetZeroState and the reply
GetZeroState(m) ==
    /\ slot[m].pc = "GetZeroState"
    /\ \E err \in {NoError} \cup Errors :
          LET r == Called(slot[m], "GetZeroState", err)
              info == IF r.data.type = "GetMasterchainInfoExt"
                      THEN [type |-> "MasterchainInfoExt", mode |-> r.data.mode,
                            version |-> 257, capabilities |-> 7,
                            last |-> r.block.id]
                      ELSE [type |-> "MasterchainInfo", last |-> r.block.id]
          IN slot' = [slot EXCEPT ![m] =
                 IF err # NoError
                 THEN Finish(r, LSError(500, "failed to resolve zero state"),
                             HitTypeFailedInternal)
                 ELSE Finish(r, info, IF r.cachedMaster THEN HitTypeCache
                                      ELSE HitTypeBackend)]
    /\ UNCHANGED <<configs, onlyProxy, tip, limiters, counters>>

(***************************************************************************)
(* handleGetLibraries, lines 469-508.                                      *)
(***************************************************************************)
GetLibraries(m) ==
    /\ slot[m].pc = "GetLibraries"
    /\ \E res \in CacheResults, loadAll \in {NoError, OtherError} :
          LET r == Called(slot[m], "GetLibraries", res.err)
              e == Propagate(res.err, "failed to get libraries",
                             HitTypeFailedValidate)
          IN /\ res.err # NoError => loadAll = NoError
             /\ slot' = [slot EXCEPT ![m] =
                 IF res.err # NoError THEN Finish(r, e[1], e[2])
                 ELSE IF loadAll # NoError
                 THEN Finish(r, LSError(500, "failed to load libraries"),
                             HitTypeFailedInternal)
                 ELSE Finish([r EXCEPT !.cachedLibs = res.cached],
                             [type |-> "LibraryResult"],
                             IF res.cached THEN HitTypeCache ELSE HitTypeBackend)]
    /\ UNCHANGED <<configs, onlyProxy, tip, limiters, counters>>

(***************************************************************************)
(* handleGetBlock, lines 510-528.                                          *)
(***************************************************************************)
GetBlock(m) ==
    /\ slot[m].pc = "GetBlock"
    /\ \E res \in CacheResults :
          LET r == Called(slot[m], "GetBlock", res.err)
              e == Propagate(res.err, "failed to get block", HitTypeFailedValidate)
          IN slot' = [slot EXCEPT ![m] =
                 IF res.err # NoError THEN Finish(r, e[1], e[2])
                 ELSE Finish([r EXCEPT !.cachedState = res.cached],
                             [type |-> "BlockData"],
                             IF res.cached THEN HitTypeCache ELSE HitTypeBackend)]
    /\ UNCHANGED <<configs, onlyProxy, tip, limiters, counters>>

(***************************************************************************)
(* handleGetTransaction, lines 530-548.                                    *)
(***************************************************************************)
GetTransaction(m) ==
    /\ slot[m].pc = "GetTransaction"
    /\ \E res \in CacheResults :
          LET r == Called(slot[m], "GetTransaction", res.err)
              e == Propagate(res.err, "failed to get transaction",
                             HitTypeFailedValidate)
          IN slot' = [slot EXCEPT ![m] =
                 IF res.err # NoError THEN Finish(r, e[1], e[2])
                 ELSE Finish([r EXCEPT !.cachedState = res.cached],
                             [type |-> "TransactionInfo"],
                             IF res.cached THEN HitTypeEmulated ELSE HitTypeBackend)]
    /\ UNCHANGED <<configs, onlyProxy, tip, limiters, counters>>

(***************************************************************************)
(* handleGetAccount (lines 550-581) and handleRunSmcMethod (263-384).      *)
(***************************************************************************)
\* lines 264-275 and 551-562: s.cache.GetMasterBlock(ctx, v.ID)
GetMasterBlock(m) ==
    /\ slot[m].pc = "GetMasterBlock"
    /\ \E res \in CacheResults :
          LET r == Called(slot[m], "GetMasterBlock", res.err)
              e == Propagate(res.err, "failed to resolve master block",
                             HitTypeFailedValidate)
          IN slot' = [slot EXCEPT ![m] =
                 IF res.err # NoError THEN Finish(r, e[1], e[2])
                 ELSE [r EXCEPT !.pc = "GetAccountState",
                                !.block = MasterBlock(r.data.id),
                                !.cachedMaster = res.cached]]
    /\ UNCHANGED <<configs, onlyProxy, tip, limiters, counters>>

\* the error of st.LoadFromCell on a cell that is no account
ParseError == [type |-> "error", text |-> "failed to load account state"]

\* what the AccountState a Cache returns may hold as its State cell:
\* none, a cell that does not parse as an account, an account whose state
\* holds no StateInit (an uninitialised or a frozen account: LoadFromCell
\* returns no error and leaves st.StateInit nil), an active account
AccountCells == {"nil", "malformed", "noStateInit", "account"}

\* line 308 evaluates st.StateInit.Code on a nil st.StateInit: the goroutine
\* of line 142 panics before GetLibraries is called and nothing recovers,
\* so the slot's task ends without a Send and the process ends with it:
\* every other message in handling is left where it was, unanswered
Panic(m, r) ==
    [n \in AllSlots |->
        IF n = m THEN [r EXCEPT !.pc = "panic"]
        ELSE IF slot[n].pc \in {"idle", "done"} THEN slot[n]
        ELSE [slot[n] EXCEPT !.pc = "killed"]]

\* handleGetAccount, lines 564-580
GetAccountState(m) ==
    /\ slot[m].pc = "GetAccountState"
    /\ slot[m].data.type = "GetAccountState"
    /\ \E res \in CacheResults, cell \in AccountCells :
          LET r == Called(slot[m], "GetAccountState", res.err)
              e == Propagate(res.err, "failed to get account state",
                             HitTypeFailedValidate)
          IN /\ res.err # NoError => cell = "nil"
             /\ slot' = [slot EXCEPT ![m] =
                 IF res.err # NoError THEN Finish(r, e[1], e[2])
                 ELSE Finish([r EXCEPT !.cachedState = res.cached, !.state = cell,
                                       !.accState = AccountStateOf(r.block, cell)],
                             AccountStateOf(r.block, cell),
                             IF res.cached /\ r.cachedMaster THEN HitTypeCache
                             ELSE HitTypeBackend)]
    /\ UNCHANGED <<configs, onlyProxy, tip, limiters, counters>>

\* mutant of StateAbsent: the nil check is missing
StateAbsentNever(cell) == FALSE

\* line 292: state.State == nil
StateAbsent(cell) == cell = "nil"

\* handleRunSmcMethod, lines 277-308: the account state, the nil check, the
\* parse of the account cell and the read of the parsed account's code
SmcGetAccountState(m) ==
    /\ slot[m].pc = "GetAccountState"
    /\ slot[m].data.type = "RunSmcMethod"
    /\ \E res \in CacheResults, cell \in AccountCells :
          LET r == Called(slot[m], "GetAccountState", res.err)
              e == Propagate(res.err, "failed to get account state",
                             HitTypeFailedValidate)
              got == [r EXCEPT !.cachedState = res.cached, !.state = cell,
                               !.accState = AccountStateOf(r.block, cell)]
          IN /\ res.err # NoError => cell = "nil"
             /\ slot' =
                 IF res.err = NoError /\ cell = "noStateInit" THEN Panic(m, got)
                 ELSE [slot EXCEPT ![m] =
                 IF res.err # NoError THEN Finish(r, e[1], e[2])
                 ELSE IF StateAbsent(cell)
                 THEN Finish(got, LSError(ErrCodeContractNotInitialized,
                                          "contract is not initialized"),
                             HitTypeFailedValidate)
                 ELSE IF cell = "malformed"
                 THEN Finish(got, LSError(500, "failed to parse account state: "
                                               \o ParseError.text),
                             HitTypeFailedInternal)
                 ELSE [got EXCEPT !.pc = "SmcGetLibraries"]]
    /\ UNCHANGED <<configs, onlyProxy, tip, limiters, counters>>

\* handleRunSmcMethod, lines 308-318: s.cache.GetLibraries(findLibs(code))
SmcGetLibraries(m) ==
    /\ slot[m].pc = "SmcGetLibraries"
    /\ \E res \in CacheResults :
          LET r == Called(slot[m], "GetLibraries", res.err)
              e == Propagate(res.err, "failed resolve libraries: " \o res.err.text,
                             HitTypeFailedValidate)
          IN slot' = [slot EXCEPT ![m] =
                 IF res.err # NoError THEN Finish(r, e[1], e[2])
                 ELSE [r EXCEPT !.pc = "RunGetMethod",
                                !.cachedLibs = res.cached]]
    /\ UNCHANGED <<configs, onlyProxy, tip, limiters, counters>>

\* v.Mode & bit, for the bits 2 and 8 of the modes tried
ModeBit(mode, bit) == (mode \div bit) % 2 = 1

\* mutant of classify: the libraries' flag is not consulted
classifyNoLibs(cachedMaster, cachedState, cachedLibs) ==
    IF cachedMaster
    THEN (IF cachedState THEN HitTypeCache ELSE HitTypeEmulated)
    ELSE HitTypeBackend

\* lines 364-370: the hit class of a RunMethodResult
classify(cachedMaster, cachedState, cachedLibs) ==
    IF cachedMaster /\ cachedLibs
    THEN (IF cachedState THEN HitTypeCache ELSE HitTypeEmulated)
    ELSE HitTypeBackend

\* mutant of EmulatorConfig: the emulator runs on the config of the tip
EmulatorConfigOfTip(r) == MasterBlock(tip).config

\* line 330: Config: block.Config
EmulatorConfig(r) == r.block.config

\* handleRunSmcMethod, lines 322-384: the emulation, the mode checks, the
\* state proof and the reply
RunGetMethod(m) ==
    /\ slot[m].pc = "RunGetMethod"
    /\ \E err \in {NoError, OtherError}, proofErr \in {NoError, OtherError} :
          LET r == [Called(slot[m], "RunGetMethod", err)
                       EXCEPT !.emuConfig = EmulatorConfig(slot[m])]
              mode == r.data.mode
          IN /\ (err # NoError \/ ModeBit(mode, 8) \/ ~ModeBit(mode, 2))
                    => proofErr = NoError
             /\ slot' = [slot EXCEPT ![m] =
                 IF err # NoError
                 THEN Finish(r, LSError(500, "failed to emulate run method: " \o err.text),
                             HitTypeFailedInternal)
                 ELSE IF ModeBit(mode, 8)
                 THEN Finish(r, LSError(403, "c7 return is currently not supported"),
                             "failed_validate_want_c7")
                 ELSE IF ModeBit(mode, 2) /\ proofErr # NoError
                 THEN Finish(r, LSError(500, "failed to prepare state proof args: "
                                         \o proofErr.text),
                             HitTypeFailedInternal)
                 ELSE Finish(r, [type |-> "RunMethodResult", mode |-> mode,
                                 id |-> r.data.id,
                                 shardBlock |-> r.accState.shard,
                                 shardProof |-> r.accState.shardProof,
                                 proof |-> r.accState.proof,
                                 stateProof |-> ModeBit(mode, 2)],
                             classify(r.cachedMaster, r.cachedState, r.cachedLibs))]
    /\ UNCHANGED <<configs, onlyProxy, tip, limiters, counters>>

(***************************************************************************)
(* The program.                                                            *)
(***************************************************************************)
Next ==
    \/ \E m \in Slots :
          \/ Arrive(m)
          \/ HandleRequest(m)
          \/ LimiterPerIP(m)
          \/ LimiterPerKey(m)
          \/ LimiterPerKeyAdd(m)
          \/ TaskStart(m)
          \/ WaitMasterBlock(m)
          \/ Dispatch(m)
          \/ Proxy(m)
          \/ GetLastMasterBlock(m)
          \/ GetZeroState(m)
          \/ GetLibraries(m)
          \/ GetBlock(m)
          \/ GetTransaction(m)
          \/ GetMasterBlock(m)
          \/ GetAccountState(m)
          \/ SmcGetAccountState(m)
          \/ SmcGetLibraries(m)
          \/ RunGetMethod(m)
          \/ Release(m)
    \/ \E k \in KnownKeys : LeakPerKey(k)
    \/ \E k \in KnownKeys, ip \in IPs : LeakPerIP(k, ip)
    \/ TipAdvance

Spec == Init /\ [][Next]_vars

(***************************************************************************)
(* Concurrent spikes: two clients send queries at once.  The queries are   *)
(* of the shape whose task ends soonest, so that every interleaving of the *)
(* limiters' steps is explored.                                            *)
(***************************************************************************)
SpikeQueries == {Query("GetTime", 0)}

ArriveSpike(m) ==
    ArriveOf(m, SpikeSlots, {"LiteServerQuery"}, KnownKeys, IPs, SpikeQueries)

NextSpike ==
    \/ \E m \in SpikeSlots :
          \/ ArriveSpike(m)
          \/ HandleRequest(m)
          \/ LimiterPerIP(m)
          \/ LimiterPerKey(m)
          \/ LimiterPerKeyAdd(m)
          \/ TaskStart(m)
          \/ Dispatch(m)
          \/ Proxy(m)
          \/ Release(m)
    \/ \E k \in KnownKeys : LeakPerKey(k)
    \/ \E k \in KnownKeys, ip \in IPs : LeakPerIP(k, ip)

SpecSpike == Init /\ [][NextSpike]_vars

(***************************************************************************)
(* The properties checked.                                                 *)
(***************************************************************************)
TooManyRequests == LSError(429, "too many requests")
UnexpectedServerKey == LSError(401, "unexpected server key")
UnexpectedLen == LSError(400, "unexpected len of queries")
UnexpectedFirst == LSError(400, "unexpected first query type")
NonZeroMode == LSError(400, "non zero mode is not supported")
WantC7 == LSError(403, "c7 return is currently not supported")

\* the slot's message got exactly the answer `data`, under its own id
AnsweredWith(r, data) ==
    r.pc = "done" /\ r.sent = <<MessageAnswer(r.id, data)>>

\* nothing was done for the slot's message beyond answering it
NothingDownstream(r) == ~r.spawned /\ r.calls = << >>

\* how often `op` was called for the slot's message
TimesCalled(r, op) == Cardinality({i \in DOMAIN r.calls : r.calls[i] = op})

\* C1: a query on a known key whose limiter cannot take the whole cost (the
\* per-IP bucket at the query's Add, the per-key bucket as the query's Add
\* read it) is answered 429 by that very step, with no task spawned and no
\* call made, and nothing is done for it later.
C1_RateLimited ==
    [][\A m \in AllSlots :
          LET r == slot[m]
              r2 == slot'[m]
          IN /\ (/\ r.pc = "limiterPerIP" /\ r2.pc # r.pc
                 /\ configs[r.key].CapacityPerIP > 0
                 /\ limiterPerIP[r.key][r.ip] + cost > configs[r.key].CapacityPerIP)
                    => (AnsweredWith(r2, TooManyRequests) /\ NothingDownstream(r2))
             /\ (/\ r.pc = "limiterPerKeyAdd" /\ r2.pc # r.pc
                 /\ r.count + cost > configs[r.key].CapacityPerKey)
                    => (AnsweredWith(r2, TooManyRequests) /\ NothingDownstream(r2))
             /\ AnsweredWith(r, TooManyRequests) => r2 \in {r, IdleSlot}]_vars

\* C1's case: a query was refused by a limiter
C1_Witness ==
    \E m \in AllSlots :
        /\ AnsweredWith(slot[m], TooManyRequests)
        /\ limiterPerKey[slot[m].key] = configs[slot[m].key].CapacityPerKey
        /\ configs[slot[m].key].CapacityPerKey > 0

\* C2: every step taken for a query on a server key without KeyConfig
\* leaves all buckets as they are; its first step answers 401 and ends its
\* handling, with no task spawned and no call made.
C2_UnknownKey ==
    [][\A m \in AllSlots :
          LET r == slot[m]
              r2 == slot'[m]
          IN (/\ r.kind = "LiteServerQuery" /\ r.key \notin DOMAIN configs
              /\ r.pc # "idle" /\ r2 # r)
                => /\ limiterPerKey' = limiterPerKey
                   /\ limiterPerIP' = limiterPerIP
                   /\ r.pc = "handleRequest"
                        => (AnsweredWith(r2, UnexpectedServerKey)
                            /\ NothingDownstream(r2))
                   /\ r.pc # "handleRequest" => r2 = IdleSlot]_vars

\* C2's case: a query on an unknown key was answered while a bucket is in use
C2_Witness ==
    \E m \in AllSlots, k \in KnownKeys :
        /\ slot[m].key \notin DOMAIN configs
        /\ AnsweredWith(slot[m], UnexpectedServerKey)
        /\ limiterPerKey[k] > 0

\* C3 (as claimed): between two leaks of a bucket, the tasks spawned under
\* it never outnumber its capacity, however the handlers' steps interleave.
C3_NoDoubleSpend ==
    \A k \in KnownKeys :
        /\ configs[k].CapacityPerKey > 0
              => admitted[k] <= configs[k].CapacityPerKey
        /\ \A ip \in IPs :
              configs[k].CapacityPerIP > 0
                 => admittedIP[k][ip] <= configs[k].CapacityPerIP

\* the query the dispatcher handled for the slot is a RunSmcMethod asking for c7
SmcWantsC7(r) ==
    /\ r.hitType # ""
    /\ r.data.type = "RunSmcMethod"
    /\ (r.data.mode \div 8) % 2 = 1

\* C4 (as claimed): a RunSmcMethod query with mode bit 3 set is rejected as
\* the first step of its handling: no Cache method and no emulator was
\* called by its handler, and its answer is 403 with class
\* failed_validate_want_c7.
C4_RejectedFirst ==
    \A m \in AllSlots :
        LET r == slot[m] IN
        SmcWantsC7(r)
           => /\ \A op \in {"GetMasterBlock", "GetAccountState", "GetLibraries",
                            "RunGetMethod"} : TimesCalled(r, op) = 0
              /\ r.pc = "done"
                   => (AnsweredWith(r, WantC7)
                       /\ r.hitType = "failed_validate_want_c7")

\* the calls that resolve a query: every Cache method that may fetch from
\* the backend, the emulator, the direct backend query
ResolvingCalls ==
    {"GetLastMasterBlock", "GetZeroState", "GetLibraries", "GetBlock",
     "GetTransaction", "GetMasterBlock", "GetAccountState", "RunGetMethod",
     "QueryLiteserver"}

ValidationErrors ==
    {UnexpectedLen, UnexpectedFirst, NonZeroMode, UnexpectedServerKey, WantC7}

\* C5 (as claimed): a query answered with one of the proxy's own validation
\* errors had no resolving call made for it.
C5_ValidationNoBackend ==
    \A m \in AllSlots :
        LET r == slot[m] IN
        (r.pc = "done" /\ \E e \in ValidationErrors : AnsweredWith(r, e))
           => \A op \in ResolvingCalls : TimesCalled(r, op) = 0

\* the Cache methods the dispatcher's handlers call
HandlerCacheOps ==
    {"GetMasterBlock", "GetLastMasterBlock", "GetZeroState", "GetBlock",
     "GetTransaction", "GetAccountState", "GetLibraries"}

\* C6 (as claimed): when the last Cache method called by a handler failed,
\* the client got that very error if it is an LSError, and an LSError with
\* code 500 otherwise.
C6_Propagation ==
    \A m \in AllSlots :
        LET r == slot[m] IN
        (/\ r.pc = "done" /\ r.calls # << >>
         /\ r.calls[Len(r.calls)] \in HandlerCacheOps
         /\ r.err # NoError)
           => IF r.err.type = "LSError"
              THEN AnsweredWith(r, r.err)
              ELSE /\ Len(r.sent) = 1
                   /\ r.sent[1].data.type = "LSError"
                   /\ r.sent[1].data.code = 500

\* C7: the hit class of a query answered with a RunMethodResult is cache
\* iff master, state and libraries were all cached, emulated iff master and
\* libraries were cached and the state was not, and backend otherwise.
C7_HitClass ==
    \A m \in AllSlots :
        LET r == slot[m] IN
        (r.pc = "done" /\ r.resp.type = "RunMethodResult")
           => /\ r.hitType = "cache"
                   <=> (r.cachedMaster /\ r.cachedState /\ r.cachedLibs)
              /\ r.hitType = "emulated"
                   <=> (r.cachedMaster /\ r.cachedLibs /\ ~r.cachedState)
              /\ r.hitType = "backend"
                   <=> ~(r.cachedMaster /\ r.cachedLibs)

\* C7's case: a method run whose master block and state were cached and
\* whose libraries were not
C7_Witness ==
    \E m \in AllSlots :
        /\ slot[m].pc = "done" /\ slot[m].resp.type = "RunMethodResult"
        /\ slot[m].cachedMaster /\ slot[m].cachedState /\ ~slot[m].cachedLibs
        /\ slot[m].hitType = "backend"

\* the query took the direct proxy: onlyProxy is set, or the dispatcher
\* met a type that neither Path E nor Path C handles
TookPathP(r) ==
    /\ r.spawned
    /\ \/ onlyProxy
       \/ r.hitType # "" /\ r.data.type \notin (EmulatedTypes \cup CachedTypes)

\* the payload a query hands to Path P: its own, or the inner query of a
\* compound query the dispatcher unwrapped
PathPPayload(r) ==
    IF ~onlyProxy /\ r.msg.type = "List" THEN r.msg.list[2] ELSE r.msg

\* C8: a query that took Path P had the backend queried exactly once, with
\* its payload, and a value the backend returned without error is the
\* answer, under the message's id.
C8_ForwardingIdentity ==
    \A m \in AllSlots :
        LET r == slot[m] IN
        (r.pc = "done" /\ TookPathP(r))
           => /\ TimesCalled(r, "QueryLiteserver") = 1
              /\ r.backendReq = PathPPayload(r)
              /\ r.err = NoError => AnsweredWith(r, r.backendVal)

\* C8's case: the inner query of a compound query was forwarded and answered
C8_Witness ==
    \E m \in AllSlots :
        /\ slot[m].pc = "done" /\ TookPathP(slot[m]) /\ ~onlyProxy
        /\ slot[m].msg.type = "List"
        /\ slot[m].err = NoError
        /\ slot[m].backendVal \in BackendValues

\* C9: in onlyProxy mode the only call ever made for an admitted query is
\* the backend query, made with the payload as received, and the answer is
\* the backend's value or the mapping of the backend's error.
C9_OnlyProxy ==
    \A m \in AllSlots :
        LET r == slot[m] IN
        (onlyProxy /\ r.spawned)
           => /\ \A i \in DOMAIN r.calls : r.calls[i] = "QueryLiteserver"
              /\ r.pc = "done"
                   => /\ r.calls = <<"QueryLiteserver">>
                      /\ r.backendReq = r.msg
                      /\ AnsweredWith(r,
                            IF r.err = NoError THEN r.backendVal
                            ELSE IF r.err.type = "LSError" THEN r.err
                            ELSE LSError(502, "backend node timeout"))

\* C9's case: in onlyProxy mode a compound query starting with a wait was
\* forwarded as it came and the backend's value was the answer
C9_Witness ==
    \E m \in AllSlots :
        /\ onlyProxy /\ slot[m].pc = "done" /\ slot[m].spawned
        /\ slot[m].msg = ListOf(<<WaitMasterchainSeqno, Query("RunSmcMethod", 8)>>)
        /\ slot[m].backendReq = slot[m].msg
        /\ AnsweredWith(slot[m], slot[m].backendVal)
        /\ slot[m].backendVal \in BackendValues

\* an admitted compound query whose list has not two elements
BadCompound(r) ==
    r.spawned /\ r.pc = "done" /\ r.msg.type = "List" /\ Len(r.msg.list) # 2

\* C10 (as claimed): every admitted compound query whose list length is
\* not 2 is answered 400 "unexpected len of queries", with no call made.
C10_AnyMode ==
    \A m \in AllSlots :
        BadCompound(slot[m])
           => (AnsweredWith(slot[m], UnexpectedLen) /\ slot[m].calls = << >>)

\* C10 (amended): when onlyProxy is off, every admitted compound query
\* whose list length is not 2 is answered 400 "unexpected len of queries",
\* with no call made.
C10_BadLen ==
    \A m \in AllSlots :
        (~onlyProxy /\ BadCompound(slot[m]))
           => (AnsweredWith(slot[m], UnexpectedLen) /\ slot[m].calls = << >>)

\* C10's case: a list of three queries was refused
C10_Witness ==
    \E m \in AllSlots :
        /\ ~onlyProxy /\ BadCompound(slot[m])
        /\ Len(slot[m].msg.list) = 3
        /\ AnsweredWith(slot[m], UnexpectedLen)

\* an admitted compound query made of a wait and an inner query
WaitCompound(r) ==
    /\ r.spawned /\ r.msg.type = "List" /\ Len(r.msg.list) = 2
    /\ r.msg.list[1].type = "WaitMasterchainSeqno"

\* one step seen from a compound query: its first call is the wait; before
\* it nothing of the inner query is touched; the wait's return decides
\* between unwrapping the inner query, sending the wait's LSError and
\* dropping the query; after a failed wait nothing more is done for it
WaitFirstStep(m) ==
    LET r == slot[m]
        r2 == slot'[m]
    IN /\ r2.calls # << >> => r2.calls[1] = "WaitMasterBlock"
       /\ r.calls = << >> => (r.data = r.msg /\ r.hitType = "" /\ r.sent = << >>)
       /\ (r.calls = << >> /\ r2.calls # << >>)
            => /\ r2.calls = <<"WaitMasterBlock">>
               /\ IF r2.err = NoError
                  THEN r2.pc # "done" /\ r2.sent = << >>
                       /\ r2.data = r.msg.list[2]
                  ELSE IF IsLSError(r2.err)
                  THEN AnsweredWith(r2, r2.err)
                  ELSE r2.pc = "done" /\ r2.sent = << >>
       /\ (r.calls = <<"WaitMasterBlock">> /\ r.err # NoError)
            => r2 \in {r, IdleSlot}

\* C11 (as claimed): for every admitted compound query [wait, inner] the
\* inner query is processed only after WaitMasterBlock returned success; an
\* LSError of the wait is sent as it is, any other error of the wait sends
\* nothing, and after a failed wait the inner query is never processed.
C11_AnyMode ==
    [][\A m \in AllSlots : WaitCompound(slot[m]) => WaitFirstStep(m)]_vars

\* C11 (amended): when onlyProxy is off, for every admitted compound query
\* [wait, inner] the inner query is processed only after WaitMasterBlock
\* returned success; an LSError of the wait is sent as it is, any other
\* error of the wait sends nothing, and after a failed wait the inner query
\* is never processed.
C11_WaitFirst ==
    [][\A m \in AllSlots :
          (~onlyProxy /\ WaitCompound(slot[m])) => WaitFirstStep(m)]_vars

\* C11's case: the wait of a compound query failed with an error that is
\* no LSError and the query was dropped
C11_Witness ==
    \E m \in AllSlots :
        /\ ~onlyProxy /\ WaitCompound(slot[m])
        /\ slot[m].pc = "done" /\ slot[m].calls = <<"WaitMasterBlock">>
        /\ slot[m].err = OtherError /\ slot[m].sent = << >>

\* the last call made for the slot's query
LastCall(r) == IF r.calls = << >> THEN "none" ELSE r.calls[Len(r.calls)]

\* the reply sent for the slot's query is the LSError that a Cache method
\* called by a handler, or the direct backend query, failed with
BackendLSErrorSent(r) ==
    /\ r.pc = "done"
    /\ LastCall(r) \in (HandlerCacheOps \cup {"QueryLiteserver"})
    /\ IsLSError(r.err)
    /\ AnsweredWith(r, r.err)

\* C12 (as claimed): a query whose reply is an LSError that came from the
\* backend, through a Cache method of a handler or through the direct
\* backend query, has the hit class failed_validate recorded.
C12_BackendLSError ==
    \A m \in AllSlots :
        BackendLSErrorSent(slot[m]) => slot[m].hitType = HitTypeFailedValidate

\* the Path C queries that involve no emulation
LookupTypes == CachedTypes \ {"RunSmcMethod"}

\* every Cache lookup made for the slot's query reported was_cached = true
AllCached(r) ==
    CASE r.data.type \in {"GetMasterchainInf", "GetMasterchainInfoExt"} -> r.cachedMaster
      [] r.data.type = "GetLibraries" -> r.cachedLibs
      [] r.data.type \in {"GetBlockData", "GetOneTransaction"} -> r.cachedState
      [] r.data.type = "GetAccountState" -> r.cachedMaster /\ r.cachedState
      [] OTHER -> FALSE

\* the dispatcher's handler answered the slot's query with a value
AnsweredByHandler(r) ==
    /\ r.pc = "done" /\ r.hitType # "" /\ r.resp # Nil
    /\ r.resp.type # "LSError" /\ AnsweredWith(r, r.resp)

\* C13 (as claimed): a Path C query without emulation that was answered
\* with a value has the hit class cache if every lookup made for it was
\* cached and backend otherwise; it never has the hit class emulated.
C13_LookupClass ==
    \A m \in AllSlots :
        LET r == slot[m] IN
        (AnsweredByHandler(r) /\ r.data.type \in LookupTypes)
           => r.hitType = IF AllCached(r) THEN HitTypeCache ELSE HitTypeBackend

BackendTimeout == LSError(502, "backend node timeout")

\* C15 (as claimed): a query whose direct backend query failed with an
\* error that is no LSError is answered 502 "backend node timeout" and has
\* the hit class failed_internal recorded.
C15_BackendTimeout ==
    \A m \in AllSlots :
        LET r == slot[m] IN
        (/\ r.pc = "done" /\ LastCall(r) = "QueryLiteserver"
         /\ r.err # NoError /\ ~IsLSError(r.err))
           => (AnsweredWith(r, BackendTimeout)
               /\ r.hitType = HitTypeFailedInternal)

(***************************************************************************)
(* Concurrent method runs: two clients of a tenant without limiters run    *)
(* get-methods at once, on different master blocks, while the chain grows. *)
(***************************************************************************)
InitSnapshot ==
    /\ Init
    /\ \A k \in KnownKeys :
          configs[k].CapacityPerKey = 0 /\ configs[k].CapacityPerIP = 0

SnapshotQueries == {QueryAt("RunSmcMethod", 0, id) : id \in BlockIDs}

ArriveSnapshot(m) ==
    ArriveOf(m, SpikeSlots, {"LiteServerQuery"}, KnownKeys, {"ip1"},
             SnapshotQueries)

NextSnapshot ==
    \/ \E m \in SpikeSlots :
          \/ ArriveSnapshot(m)
          \/ HandleRequest(m)
          \/ LimiterPerIP(m)
          \/ LimiterPerKey(m)
          \/ TaskStart(m)
          \/ Dispatch(m)
          \/ Proxy(m)
          \/ GetMasterBlock(m)
          \/ SmcGetAccountState(m)
          \/ SmcGetLibraries(m)
          \/ RunGetMethod(m)
          \/ Release(m)
    \/ TipAdvance

SpecSnapshot == InitSnapshot /\ [][NextSnapshot]_vars

\* C14: in every RunMethodResult sent for a request naming master block M,
\* the reply's id is M, the emulator ran on the config of the master block
\* the Cache holds for M, and the reply's shard block, shard proof and
\* proof are those of the account state as of that master block.
C14_Snapshot ==
    \A m \in AllSlots :
        LET r == slot[m]
            M == r.data.id
            state == AccountStateOf(MasterBlock(M), r.state)
        IN (r.pc = "done" /\ r.resp.type = "RunMethodResult")
              => /\ AnsweredWith(r, r.resp)
                 /\ r.resp.id = M
                 /\ r.block = MasterBlock(M)
                 /\ r.emuConfig = MasterBlock(M).config
                 /\ r.accState = state
                 /\ r.resp.shardBlock = state.shard
                 /\ r.resp.shardProof = state.shardProof
                 /\ r.resp.proof = state.proof

\* C14's case: a method run on master block 1 was answered after the tip
\* had advanced, while a method run on master block 2 is between its
\* master block and its emulation
C14_Witness ==
    \E m, n \in SpikeSlots :
        /\ m # n /\ tip > 1
        /\ slot[m].pc = "done" /\ slot[m].resp.type = "RunMethodResult"
        /\ slot[m].resp.id = 1
        /\ slot[n].block = MasterBlock(2)
        /\ slot[n].pc \in {"GetAccountState", "SmcGetLibraries", "RunGetMethod"}

\* the steps of handleRunSmcMethod that call out, in the order of the code
SmcSteps == <<"GetMasterBlock", "GetAccountState", "GetLibraries", "RunGetMethod">>

\* the calls made for the slot's query by the dispatcher's handler: all of
\* them but the wait of a compound query
HandlerCalls(r) ==
    IF r.calls # << >> /\ r.calls[1] = "WaitMasterBlock"
    THEN SubSeq(r.calls, 2, Len(r.calls)) ELSE r.calls

\* the dispatcher handles a RunSmcMethod query for the slot
SmcHandled(r) == r.hitType # "" /\ r.data.type = "RunSmcMethod"

ContractNotInitialized ==
    LSError(ErrCodeContractNotInitialized, "contract is not initialized")

\* one step seen from a RunSmcMethod query: its calls are made in the order
\* of SmcSteps, none twice; a failed call, an absent state and a state that
\* does not parse end the handling; an absent state is answered "contract
\* is not initialized" with the class failed_validate
SmcOrderStep(m) ==
    LET r == slot[m]
        r2 == slot'[m]
        calls == HandlerCalls(r)
    IN /\ Len(calls) <= Len(SmcSteps)
       /\ calls = SubSeq(SmcSteps, 1, Len(calls))
       /\ (calls # << >> /\ r.err # NoError) => r.pc = "done"
       /\ (LastCall(r) = "GetAccountState" /\ r.err = NoError
             /\ r.state \in {"nil", "malformed"})
            => r.pc = "done"
       /\ (LastCall(r) = "GetAccountState" /\ r.err = NoError
             /\ r.state = "noStateInit")
            => r.pc = "panic"
       /\ (LastCall(r) = "GetAccountState" /\ r.err = NoError /\ r.state = "nil")
            => (AnsweredWith(r, ContractNotInitialized)
                /\ r.hitType = HitTypeFailedValidate)
       /\ r.pc = "done" => r2 \in {r, IdleSlot}
       /\ r.pc = "panic" => r2 = r

\* C16: RunSmcMethod resolves master block, account state, account parse,
\* libraries and emulation in this order and stops at the first failure;
\* an absent account state is answered "contract is not initialized" with
\* the class failed_validate, and neither GetLibraries nor the emulator is
\* called for it.
C16_SmcOrder ==
    [][\A m \in AllSlots : SmcHandled(slot[m]) => SmcOrderStep(m)]_vars

\* C16's case: a method run found the account state absent, after a wait
C16_Witness ==
    \E m \in AllSlots :
        /\ SmcHandled(slot[m]) /\ slot[m].pc = "done" /\ slot[m].state = "nil"
        /\ slot[m].calls = <<"WaitMasterBlock", "GetMasterBlock", "GetAccountState">>
        /\ slot[m].err = NoError
        /\ AnsweredWith(slot[m], ContractNotInitialized)

\* C17: when onlyProxy is off, a query of a type that Path E or Path C
\* handles never has the backend queried directly: its handler's reply,
\* value or error, is not nil, the direct proxy is not entered, and that
\* reply is the answer.
C17_NoFallback ==
    \A m \in AllSlots :
        LET r == slot[m] IN
        (/\ ~onlyProxy /\ r.hitType # ""
         /\ r.data.type \in (EmulatedTypes \cup CachedTypes))
           => /\ TimesCalled(r, "QueryLiteserver") = 0
              /\ r.pc # "proxy"
              /\ r.backendReq = Nil
              /\ r.pc = "done" => (r.resp # Nil /\ AnsweredWith(r, r.resp))

\* C17's case: the handler of a block query answered with an error of its
\* own making after the Cache failed
C17_Witness ==
    \E m \in AllSlots :
        /\ ~onlyProxy /\ slot[m].data.type = "GetBlockData"
        /\ slot[m].pc = "done" /\ LastCall(slot[m]) = "GetBlock"
        /\ slot[m].err = OtherError
        /\ AnsweredWith(slot[m], LSError(500, "failed to get block"))

(***************************************************************************)
(* Liveness: handleRequest and the goroutine it starts are scheduled, and  *)
(* every call they make returns, so a message being handled takes its next *)
(* step.                                                                   *)
(***************************************************************************)
Step ==
    \E m \in Slots :
        \/ HandleRequest(m)
        \/ LimiterPerIP(m)
        \/ LimiterPerKey(m)
        \/ LimiterPerKeyAdd(m)
        \/ TaskStart(m)
        \/ WaitMasterBlock(m)
        \/ Dispatch(m)
        \/ Proxy(m)
        \/ GetLastMasterBlock(m)
        \/ GetZeroState(m)
        \/ GetLibraries(m)
        \/ GetBlock(m)
        \/ GetTransaction(m)
        \/ GetMasterBlock(m)
        \/ GetAccountState(m)
        \/ SmcGetAccountState(m)
        \/ SmcGetLibraries(m)
        \/ RunGetMethod(m)

SpecLive == Init /\ [][Next]_vars /\ WF_vars(Step)

\* the slot holds a liteserver query
IsQuery(r) == r.pc # "idle" /\ r.kind = "LiteServerQuery"

\* the wait of the slot's compound query failed with an error that is no
\* LSError
WaitDropped(r) ==
    /\ r.pc = "done" /\ r.calls = <<"WaitMasterBlock">>
    /\ r.err # NoError /\ ~IsLSError(r.err)

\* the handling of the slot's message has ended: its task returned, or the
\* process ended under it
Ended(r) == r.pc \in {"done", "panic", "killed"}

\* the handling of the slot's query has ended with exactly one answer, or
\* with none after a dropped wait
Settled(r) ==
    /\ Ended(r)
    /\ IF WaitDropped(r) THEN r.sent = << >>
       ELSE Len(r.sent) = 1 /\ r.sent[1].type = "MessageAnswer"
            /\ r.sent[1].id = r.id

\* C18 (as claimed): for a liteserver query never more than one answer is
\* sent, and only under the query's id; its handling ends, and when it has
\* ended exactly one answer was sent, but for the one case of a wait that
\* failed with an error that is no LSError, where none was.  The panic of
\* line 308 is a second case where none is sent.
C18_ExactlyOne ==
    /\ [](\A m \in AllSlots :
            IsQuery(slot[m])
               => /\ Len(slot[m].sent) <= 1
                  /\ \A i \in DOMAIN slot[m].sent :
                        slot[m].sent[i] = MessageAnswer(slot[m].id, slot[m].sent[i].data)
                  /\ Ended(slot[m]) => Settled(slot[m]))
    /\ \A m \in AllSlots :
          (IsQuery(slot[m]) /\ slot[m].pc = "handleRequest")
             ~> (IsQuery(slot[m]) /\ Settled(slot[m]))

\* one step seen from a query at a limiter.  At the per-IP limiter the
\* per-key bucket is left alone, and a query that passes an existing
\* per-IP limiter has put its cost into its IP's bucket.  At the per-key
\* limiter, passing or refused, the per-IP buckets are left alone: what
\* the query put into its IP's bucket stays there.
DebitOrderStep(m) ==
    LET r == slot[m]
        r2 == slot'[m]
        c == configs[r.key]
    IN /\ (r.pc = "limiterPerIP" /\ r2.pc # r.pc)
            => /\ limiterPerKey' = limiterPerKey
               /\ r2.pc \in {"limiterPerKey", "done"}
               /\ r2.pc = "done"
                    => (AnsweredWith(r2, TooManyRequests)
                        /\ limiterPerIP' = limiterPerIP)
               /\ (r2.pc = "limiterPerKey" /\ c.CapacityPerIP > 0)
                    => limiterPerIP'[r.key][r.ip] = limiterPerIP[r.key][r.ip] + cost
       /\ (r.pc \in {"limiterPerKey", "limiterPerKeyAdd"} /\ r2.pc # r.pc)
            => /\ limiterPerIP' = limiterPerIP
               /\ r2.pc = "done"
                    => (AnsweredWith(r2, TooManyRequests) /\ ~r2.spawned
                        /\ limiterPerKey' = limiterPerKey)

\* C19: the limiters are debited per-IP first and per-key second, with no
\* refund: a query refused by the per-IP limiter leaves the per-key bucket
\* as it was, and a query refused by the per-key limiter leaves in its IP's
\* bucket the token it put there.
C19_DebitOrder ==
    [][\A m \in AllSlots : IsQuery(slot[m]) => DebitOrderStep(m)]_vars

\* C19's case: a query was refused by the per-key limiter and its token is
\* in its IP's bucket, under which no task was admitted since the last leak
C19_Witness ==
    \E m \in AllSlots :
        LET r == slot[m] IN
        /\ IsQuery(r) /\ AnsweredWith(r, TooManyRequests) /\ ~r.spawned
        /\ configs[r.key].CapacityPerIP > 0 /\ configs[r.key].CapacityPerKey > 0
        /\ limiterPerKey[r.key] = configs[r.key].CapacityPerKey
        /\ limiterPerIP[r.key][r.ip] > 0
        /\ admittedIP[r.key][r.ip] = 0

\* C20: a message that is no liteserver query is handled in one step that
\* leaves every bucket alone, spawns no task and makes no call: for a
\* TCPPing a TCPPong of its id is sent, whatever the server key and the
\* buckets, and handleRequest returns what the send returned; any other
\* message makes handleRequest return its own error and sends nothing.
C20_Bypass ==
    [][\A m \in AllSlots :
          LET r == slot[m]
              r2 == slot'[m]
          IN (r.pc # "idle" /\ r.kind # "LiteServerQuery" /\ r2 # r)
                => /\ limiterPerKey' = limiterPerKey
                   /\ limiterPerIP' = limiterPerIP
                   /\ r.pc = "handleRequest"
                        => /\ r2.pc = "done" /\ NothingDownstream(r2)
                           /\ IF r.kind = "TCPPing"
                              THEN r2.sent = <<[type |-> "TCPPong", id |-> r.id]>>
                                   /\ r2.ret \in {"nil", "sendError"}
                              ELSE r2.sent = << >> /\ r2.ret = "error"
                   /\ r.pc # "handleRequest" => r2 = IdleSlot]_vars

\* C20's case: a ping on a server key without KeyConfig was answered while
\* the known key's bucket is full
C20_Witness ==
    \E m \in AllSlots, k \in KnownKeys :
        /\ slot[m].kind = "TCPPing" /\ slot[m].key \notin DOMAIN configs
        /\ slot[m].pc = "done"
        /\ slot[m].sent = <<[type |-> "TCPPong", id |-> slot[m].id]>>
        /\ configs[k].CapacityPerKey > 0
        /\ limiterPerKey[k] = configs[k].CapacityPerKey

====
